---- MODULE Spec2Model ----
(***************************************************************************)
(* Model of dashboard.py: the memoized CSV loader load_data, the memoized  *)
(* generate_summary_stats, and the render pass main() that the host        *)
(* framework re-runs top to bottom on every user interaction.              *)
(***************************************************************************)
EXTENDS Integers, Sequences, FiniteSets, TLC

VARIABLES
    disk,           \* the on-disk file diabetes.csv: missing or its content
    uploaded_file,  \* value of the file_uploader widget (line 79)
    clock,          \* last reading of datetime.now() (line 73)
    pxEmptyOk,      \* whether the charting build draws a chart from no column
    cache,          \* st.cache_data store of load_data (line 46)
    summaryCache,   \* st.cache_data store of generate_summary_stats (line 55)
    pc,             \* position of the script inside the render pass
    data,           \* local `data` of main
    loaded,         \* what load_data returned to main in this pass
    summary_stats,  \* local `summary_stats` of main
    page,           \* elements emitted so far in this pass
    sel,            \* widget selections read by this pass
    loadCalls,      \* inputs load_data was called on in this pass
    parsed,         \* log of the pd.read_csv runs: the input and the outcome
    summaryCalls,   \* results of the generate_summary_stats calls of this pass
    passes,         \* number of render passes started
    history         \* completed passes: selections, dataset, page

vars == <<disk, uploaded_file, clock, pxEmptyOk, cache, summaryCache, pc, data,
          loaded, summary_stats, page, sel, loadCalls, parsed, summaryCalls,
          passes, history>>

-----------------------------------------------------------------------------
(* Bounds *)

MaxCells == 4      \* data fields (lines times columns) of an enumerated CSV
MaxPasses == 2     \* render passes in one behaviour

-----------------------------------------------------------------------------
(* Generic helpers *)

RECURSIVE SumSeq(_)
SumSeq(s) == IF s = <<>> THEN 0 ELSE Head(s) + SumSeq(Tail(s))

Range(s) == {s[i] : i \in 1..Len(s)}

Max(a, b) == IF a >= b THEN a ELSE b

-----------------------------------------------------------------------------
(* CSV text.  A file is a sequence of lines, a line a sequence of fields;  *)
(* the first non-blank line is the header.                                 *)

Names == {"a", "b"}
IntTokens == {"1"}
FloatTokens == {"2.5"}
BoolTokens == {"True"}
NullTokens == {""}
TextTokens == {"x"}
Tokens == IntTokens \cup FloatTokens \cup BoolTokens \cup NullTokens \cup TextTokens

NaN == "NaN"

IsBlankLine(line) == line = <<>> \/ line = <<"">>

\* pandas renames a repeated header name: a, a -> a, a.1
MangledName(header, i) ==
    <<header[i], Cardinality({j \in 1..(i - 1) : header[j] = header[i]})>>

\* a field of a data line, NaN where the line is short or the field is null
Cell(line, j) ==
    IF j > Len(line) THEN NaN
    ELSE IF line[j] \in NullTokens THEN NaN ELSE line[j]

\* dtype inference of pd.read_csv for one column of parsed cells
InferDtype(vals) ==
    LET nonnull == {i \in 1..Len(vals) : vals[i] # NaN}
        hasNull == \E i \in 1..Len(vals) : vals[i] = NaN
    IN  IF Len(vals) = 0 THEN "object"
        ELSE IF nonnull = {} THEN "float64"
        ELSE IF \A i \in nonnull : vals[i] \in IntTokens \cup FloatTokens
             THEN IF (\A i \in nonnull : vals[i] \in IntTokens) /\ ~hasNull
                  THEN "int64" ELSE "float64"
        ELSE IF (\A i \in nonnull : vals[i] \in BoolTokens) /\ ~hasNull
             THEN "bool"
        ELSE "object"

None == [kind |-> "None"]
IsNone(d) == d.kind = "None"

MissingFile == [kind |-> "Missing"]
File(content) == [kind |-> "File", content |-> content]

\* pd.read_csv(file_path): a DataFrame, or the exception it raises
read_csv(f) ==
    IF f.kind = "Missing"
    THEN [ok |-> FALSE, err |-> "FileNotFoundError", df |-> None]
    ELSE
    LET lines == SelectSeq(f.content, LAMBDA l : ~IsBlankLine(l)) IN
    IF lines = <<>>
    THEN [ok |-> FALSE, err |-> "EmptyDataError", df |-> None]
    ELSE
    LET header == lines[1]
        rows == Tail(lines)
        M == Len(header)
        ex_fields == IF rows = <<>> THEN M ELSE Max(M, Len(rows[1]))
    IN  IF \E i \in 2..Len(rows) : Len(rows[i]) > ex_fields
        THEN [ok |-> FALSE, err |-> "ParserError", df |-> None]
        ELSE [ok |-> TRUE, err |-> "",
              df |-> [kind |-> "DataFrame",
                      nrows |-> Len(rows),
                      cols |-> [j \in 1..M |->
                          LET vals == [i \in 1..Len(rows) |-> Cell(rows[i], j)]
                          IN [name |-> MangledName(header, j),
                              dtype |-> InferDtype(vals),
                              vals |-> vals]]]]

-----------------------------------------------------------------------------
(* DataFrame projections used by the script *)

NumericDtypes == {"float64", "int64"}
CategoricalDtypes == {"object", "category"}

\* data.select_dtypes(include=...): a new frame holding the matching columns
select_dtypes(d, include) ==
    [kind |-> "DataFrame", nrows |-> d.nrows,
     cols |-> SelectSeq(d.cols, LAMBDA c : c.dtype \in include)]

\* data.columns
columns(d) == [j \in 1..Len(d.cols) |-> d.cols[j].name]

\* variant: data.isnull().any(), one per column that has a null cell
isnull_any(d) ==
    [j \in 1..Len(d.cols) |->
        IF \E i \in 1..Len(d.cols[j].vals) : d.cols[j].vals[i] = NaN THEN 1 ELSE 0]

\* data.isnull().sum(): per-column count of null cells
isnull_sum(d) ==
    [j \in 1..Len(d.cols) |->
        Cardinality({i \in 1..Len(d.cols[j].vals) : d.cols[j].vals[i] = NaN})]

\* bytes per cell of a column of the given dtype
ItemSize(dtype) == IF dtype = "bool" THEN 1 ELSE 8

\* bytes reported for the RangeIndex row of data.memory_usage()
IndexBytes == 128

\* data.memory_usage().sum()
memory_usage_sum(d) ==
    IndexBytes + SumSeq([j \in 1..Len(d.cols) |-> ItemSize(d.cols[j].dtype) * d.nrows])

\* f"{bytes / 1024:.2f} KB": hundredths of a KB, ties to even
FormatKB(bytes) ==
    LET q == bytes * 100
        h == q \div 1024
        r == q % 1024
        up == r > 512 \/ (r = 512 /\ h % 2 = 1)
        hh == IF up THEN h + 1 ELSE h
    IN  <<hh \div 100, hh % 100, "KB">>

\* body of generate_summary_stats (lines 57-64)
generate_summary_stats(d) ==
    [k \in {"Total Records", "Missing Values", "Numeric Columns",
            "Categorical Columns", "Memory Usage"} |->
        CASE k = "Total Records" -> <<d.nrows>>
          [] k = "Missing Values" -> <<SumSeq(isnull_sum(d))>>
          [] k = "Numeric Columns" -> <<Len(select_dtypes(d, NumericDtypes).cols)>>
          [] k = "Categorical Columns" -> <<Len(select_dtypes(d, CategoricalDtypes).cols)>>
          [] k = "Memory Usage" -> FormatKB(memory_usage_sum(d))]

NoSummary == [k \in {} |-> <<>>]

\* @st.cache_data around generate_summary_stats: the frame's content is the key
cached_generate_summary_stats(sc, d) ==
    IF d \in DOMAIN sc
    THEN [value |-> sc[d], store |-> sc]
    ELSE LET v == generate_summary_stats(d)
         IN [value |-> v,
             store |-> [k \in DOMAIN sc \cup {d} |-> IF k = d THEN v ELSE sc[k]]]

-----------------------------------------------------------------------------
(* The loader *)

DefaultPath == "diabetes.csv"
PathInput == <<"path", DefaultPath>>
UploadInput(u) == <<"upload", u.content>>

\* what pd.read_csv opens for an input: the file on disk, or the upload's bytes
Open(input, dsk) == IF input[1] = "path" THEN dsk ELSE File(input[2])

\* the key st.cache_data derives from the argument: the path string itself,
\* or a digest of the uploaded bytes
CacheKey(input) == input

\* variant: `except ValueError`, which lets an OSError through
CaughtByExceptValueError(err) ==
    err \in {"EmptyDataError", "ParserError"}

\* `except Exception` (line 51) catches every error pd.read_csv raises
CaughtByExcept(err) ==
    err \in {"FileNotFoundError", "EmptyDataError", "ParserError"}

\* body of load_data (lines 48-53): the value returned, the elements emitted,
\* the exception that escapes ("" when none), and what pd.read_csv produced
load_data_body(input, dsk) ==
    LET r == read_csv(Open(input, dsk))
    IN  IF r.ok
        THEN [value |-> r.df, msgs |-> <<>>, raised |-> "", parse |-> r]
        ELSE IF CaughtByExcept(r.err)
        THEN [value |-> None,
              msgs |-> << <<"error", "Error loading data: ", r.err>> >>,
              raised |-> "", parse |-> r]
        ELSE [value |-> None, msgs |-> <<>>, raised |-> r.err, parse |-> r]

\* variant: the result is not kept
CacheStoreNothing(c, key, e) == c

\* the store after a call that missed: st.cache_data keeps whatever the body
\* returned, together with the elements it emitted for replay
CacheStore(c, key, e) ==
    [k \in DOMAIN c \cup {key} |->
        IF k = key THEN [value |-> e.value, msgs |-> e.msgs] ELSE c[k]]

\* variant: a hit returns the value without replaying the emitted elements
load_data_no_replay(c, input, dsk) ==
    LET key == CacheKey(input) IN
    IF key \in DOMAIN c
    THEN [value |-> c[key].value, msgs |-> <<>>, raised |-> "",
          store |-> c, ran |-> <<>>]
    ELSE LET e == load_data_body(input, dsk)
         IN [value |-> e.value, msgs |-> e.msgs, raised |-> e.raised,
             store |-> IF e.raised = "" THEN CacheStore(c, key, e) ELSE c,
             ran |-> << [input |-> input, result |-> e.parse] >>]

\* @st.cache_data around load_data (line 46)
load_data(c, input, dsk) ==
    LET key == CacheKey(input) IN
    IF key \in DOMAIN c
    THEN [value |-> c[key].value, msgs |-> c[key].msgs, raised |-> "",
          store |-> c, ran |-> <<>>]
    ELSE LET e == load_data_body(input, dsk)
         IN [value |-> e.value, msgs |-> e.msgs, raised |-> e.raised,
             store |-> IF e.raised = "" THEN CacheStore(c, key, e) ELSE c,
             ran |-> << [input |-> input, result |-> e.parse] >>]

EmptyCache == [k \in {} |-> None]

-----------------------------------------------------------------------------
(* Inputs of the render passes *)

\* a:int64, b:object with a null field and a short last line
MixedCsv == << <<"a", "b">>, <<"1", "x">>, <<"1", "">>, <<"1">> >>
\* a single text column
TextCsv == << <<"a">>, <<"x">>, <<"x">> >>
\* a line with more fields than the lines before it
RaggedCsv == << <<"a", "b">>, <<"1", "x">>, <<"1", "x", "x">> >>

UploadedFile(content) == [kind |-> "UploadedFile", content |-> content]

DiskStates == {MissingFile, File(MixedCsv)}
Uploads == {None, UploadedFile(RaggedCsv), UploadedFile(TextCsv), UploadedFile(MixedCsv)}

AnalysisTypes == {"Univariate Analysis", "Bivariate Analysis", "Correlation Analysis"}
PlotTypes == {"Scatter", "Line", "Bar"}
CorrelationMethods == {"Pearson", "Spearman"}

NoneCol == <<"None", 0>>

\* st.selectbox over a list of options: the user's pick, None when there is none
SelectboxChoices(options) == IF options = <<>> THEN {NoneCol} ELSE Range(options)

NoSel == [uploaded_file |-> None, analysis_type |-> "", numeric_col |-> NoneCol,
          x_col |-> NoneCol, y_col |-> NoneCol, plot_type |-> "",
          correlation_method |-> "", export |-> FALSE]

NoPass == [sel |-> NoSel, data |-> None, page |-> <<>>, pass |-> 0]

-----------------------------------------------------------------------------
(* The render pass: main(), lines 67-185 *)

Init ==
    /\ disk \in DiskStates
    /\ uploaded_file = None
    /\ clock = 0
    /\ pxEmptyOk \in BOOLEAN
    /\ cache = EmptyCache
    /\ summaryCache = EmptyCache
    /\ pc = "idle"
    /\ data = None
    /\ loaded = None
    /\ summary_stats = NoSummary
    /\ page = <<>>
    /\ sel = NoSel
    /\ loadCalls = <<>>
    /\ parsed = <<>>
    /\ summaryCalls = <<>>
    /\ passes = 0
    /\ history = NoPass

\* the pass has run to its end (or died on an exception): the host shows the
\* page; an observer may keep this pass to compare later ones with
Finish(pg, sl) ==
    /\ pc' = "idle"
    /\ page' = pg
    /\ sel' = sl
    /\ history' \in {history, [sel |-> sl, data |-> data, page |-> pg, pass |-> passes]}

\* a user interaction re-runs the script: header, sidebar, uploader (67-79);
\* datetime.now() reads `now`, which is not earlier than the last reading
Rerun(u, now) ==
    /\ pc = "idle"
    /\ passes < MaxPasses
    /\ passes' = passes + 1
    /\ uploaded_file' = u
    /\ now \in {clock, clock + 1}
    /\ clock' = now
    /\ page' = << <<"title", "Advanced Analytics Dashboard">>,
                  <<"text", "Last updated: ", now>>,
                  <<"sidebar.header", "Dashboard Controls">>,
                  <<"sidebar.file_uploader", "Upload Dataset (CSV)">> >>
    /\ sel' = [NoSel EXCEPT !.uploaded_file = u]
    /\ data' = None
    /\ loaded' = None
    /\ summary_stats' = NoSummary
    /\ loadCalls' = <<>>
    /\ summaryCalls' = <<>>
    /\ pc' = "load"
    /\ UNCHANGED <<disk, pxEmptyOk, cache, summaryCache, parsed, history>>

\* variant: an upload that is there is ignored
ChooseInputDefault(u) == PathInput

\* the input main hands to load_data (lines 80-85)
ChooseInput(u) == IF ~IsNone(u) THEN UploadInput(u) ELSE PathInput

\* lines 80-85
LoadStep ==
    /\ pc = "load"
    /\ LET input == ChooseInput(uploaded_file)
           r == load_data(cache, input, disk)
       IN  /\ cache' = r.store
           /\ data' = r.value
           /\ loaded' = r.value
           /\ loadCalls' = Append(loadCalls, input)
           /\ parsed' = parsed \o r.ran
           /\ IF r.raised # ""
              THEN Finish(Append(page, <<"exception", r.raised>>), sel)
              ELSE /\ page' = IF ~IsNone(uploaded_file)
                              THEN page \o r.msgs \o
                                   << <<"sidebar.success", "File uploaded successfully!">> >>
                              ELSE page \o
                                   << <<"info", "Using default dataset: diabetes.csv">> >>
                                   \o r.msgs
                   /\ pc' = "branch"
                   /\ UNCHANGED <<sel, history>>
    /\ UNCHANGED <<disk, uploaded_file, clock, pxEmptyOk, summaryCache,
                   summary_stats, summaryCalls, passes>>

\* lines 184-185
NoDataStep ==
    /\ pc = "branch"
    /\ IsNone(data)
    /\ Finish(Append(page, <<"error", "No data available.">>), sel)
    /\ UNCHANGED <<disk, uploaded_file, clock, pxEmptyOk, cache, summaryCache,
                   data, loaded, summary_stats, loadCalls, parsed, summaryCalls,
                   passes>>

\* data.head(): the first five rows, a new frame
head(d) ==
    LET n == IF d.nrows < 5 THEN d.nrows ELSE 5
    IN  [kind |-> "DataFrame", nrows |-> n,
         cols |-> [j \in 1..Len(d.cols) |->
                     [d.cols[j] EXCEPT !.vals = SubSeq(d.cols[j].vals, 1, n)]]]

\* lines 87-107
OverviewStep(a) ==
    /\ pc = "branch"
    /\ ~IsNone(data)
    /\ LET r == cached_generate_summary_stats(summaryCache, data)
       IN  /\ summaryCache' = r.store
           /\ summary_stats' = r.value
           /\ summaryCalls' = Append(summaryCalls, r.value)
           /\ page' = page \o
                << <<"metric", "Total Records", r.value["Total Records"]>>,
                   <<"metric", "Missing Values", r.value["Missing Values"]>>,
                   <<"metric", "Memory Usage", r.value["Memory Usage"]>>,
                   <<"dataframe", head(data)>>,
                   <<"sidebar.subheader", "Analysis Options">>,
                   <<"sidebar.selectbox", "Choose Analysis Type", a>> >>
    /\ sel' = [sel EXCEPT !.analysis_type = a]
    /\ pc' = "analysis"
    /\ UNCHANGED <<disk, uploaded_file, clock, pxEmptyOk, cache, data, loaded,
                   loadCalls, parsed, passes, history>>

\* lines 110-132
Univariate(c) ==
    /\ pc = "analysis"
    /\ sel.analysis_type = "Univariate Analysis"
    /\ LET options == columns(select_dtypes(data, NumericDtypes))
           pre == page \o
                << <<"subheader", "Numeric Distribution">>,
                   <<"selectbox", "Select Numeric Column", options, c>> >>
           sl == [sel EXCEPT !.numeric_col = c]
       IN  /\ c \in SelectboxChoices(options)
           /\ IF c = NoneCol
              THEN \* no column to plot: px.histogram may refuse; data[None] raises
                   Finish(IF pxEmptyOk
                          THEN pre \o << <<"plotly_chart", "histogram", c, NoneCol>>,
                                         <<"write", "Summary Statistics:">>,
                                         <<"exception", "KeyError">> >>
                          ELSE pre \o << <<"exception", "ValueError">> >>,
                          sl)
              ELSE /\ page' = pre \o
                        << <<"plotly_chart", "histogram", c, NoneCol>>,
                           <<"write", "Summary Statistics:">>,
                           <<"write", "describe", c>>,
                           <<"subheader", "Time Series/Trend">>,
                           <<"plotly_chart", "box", NoneCol, c>>,
                           <<"write", "Skewness", c>>,
                           <<"write", "Kurtosis", c>> >>
                   /\ sel' = sl
                   /\ pc' = "export"
                   /\ UNCHANGED history
    /\ UNCHANGED <<disk, uploaded_file, clock, pxEmptyOk, cache, summaryCache,
                   data, loaded, summary_stats, loadCalls, parsed, summaryCalls,
                   passes>>

\* variant: the filter on x_col is missing
YOptionsAll(d, x_col) == columns(d)

\* [col for col in data.columns if col != x_col] (line 142)
YOptions(d, x_col) == SelectSeq(columns(d), LAMBDA col : col # x_col)

\* lines 135-153
Bivariate(x_col, y_col, plot_type) ==
    /\ pc = "analysis"
    /\ sel.analysis_type = "Bivariate Analysis"
    /\ x_col \in SelectboxChoices(columns(data))
    /\ y_col \in SelectboxChoices(YOptions(data, x_col))
    /\ page' = page \o
            << <<"subheader", "Bivariate Analysis">>,
               <<"selectbox", "Select X-axis", columns(data), x_col>>,
               <<"selectbox", "Select Y-axis", YOptions(data, x_col), y_col>>,
               <<"radio", "Select Plot Type", plot_type>>,
               <<"plotly_chart", plot_type, x_col, y_col>> >>
    /\ sel' = [sel EXCEPT !.x_col = x_col, !.y_col = y_col, !.plot_type = plot_type]
    /\ pc' = "export"
    /\ UNCHANGED <<disk, uploaded_file, clock, pxEmptyOk, cache, summaryCache,
                   data, loaded, summary_stats, loadCalls, parsed, summaryCalls,
                   passes, history>>

\* numeric_data.corr(method=...): a matrix indexed by the frame's columns
corr(d, method) == [method |-> method, index |-> columns(d)]

\* variant: the numeric projection is assigned back to `data`
CorrelationOverwritesData(correlation_method) ==
    /\ pc = "analysis"
    /\ sel.analysis_type = "Correlation Analysis"
    /\ LET numeric_data == select_dtypes(data, NumericDtypes)
           corr_matrix == corr(numeric_data, correlation_method)
           pre == page \o
                << <<"subheader", "Correlation Analysis">>,
                   <<"radio", "Select Correlation Method", correlation_method>> >>
           sl == [sel EXCEPT !.correlation_method = correlation_method]
       IN  /\ pc' = "export"
           /\ data' = numeric_data
           /\ page' = pre \o
                     << <<"plotly_chart", "imshow", corr_matrix>>,
                        <<"write", "### Detailed Correlation Values">>,
                        <<"dataframe.style", corr_matrix>> >>
           /\ sel' = sl
    /\ UNCHANGED <<disk, uploaded_file, clock, pxEmptyOk, cache, summaryCache,
                   loaded, summary_stats, loadCalls, parsed, summaryCalls,
                   passes, history>>

\* lines 156-176
Correlation(correlation_method) ==
    /\ pc = "analysis"
    /\ sel.analysis_type = "Correlation Analysis"
    /\ LET numeric_data == select_dtypes(data, NumericDtypes)
           corr_matrix == corr(numeric_data, correlation_method)
           pre == page \o
                << <<"subheader", "Correlation Analysis">>,
                   <<"radio", "Select Correlation Method", correlation_method>> >>
           sl == [sel EXCEPT !.correlation_method = correlation_method]
       IN  IF numeric_data.cols = <<>> /\ ~pxEmptyOk
           THEN Finish(pre \o << <<"exception", "ValueError">> >>, sl)
           ELSE /\ page' = pre \o
                     << <<"plotly_chart", "imshow", corr_matrix>>,
                        <<"write", "### Detailed Correlation Values">>,
                        <<"dataframe.style", corr_matrix>> >>
                /\ sel' = sl
                /\ pc' = "export"
                /\ UNCHANGED history
    /\ UNCHANGED <<disk, uploaded_file, clock, pxEmptyOk, cache, summaryCache,
                   data, loaded, summary_stats, loadCalls, parsed, summaryCalls,
                   passes>>

\* lines 179-182
ExportStep(clicked) ==
    /\ pc = "export"
    /\ Finish(page \o
              << <<"sidebar.subheader", "Export Options">>,
                 <<"sidebar.button", "Export Analysis Report", clicked>> >>
              \o (IF clicked
                  THEN << <<"sidebar.success", "Report exported successfully!">> >>
                  ELSE <<>>),
              [sel EXCEPT !.export = clicked])
    /\ UNCHANGED <<disk, uploaded_file, clock, pxEmptyOk, cache, summaryCache,
                   data, loaded, summary_stats, loadCalls, parsed, summaryCalls,
                   passes>>

-----------------------------------------------------------------------------
(* The environment *)

\* diabetes.csv is replaced, created or removed on disk
ChangeDisk(f) ==
    /\ pc = "idle"
    /\ f # disk
    /\ disk' = f
    /\ UNCHANGED <<uploaded_file, clock, pxEmptyOk, cache, summaryCache, pc, data,
                   loaded, summary_stats, page, sel, loadCalls, parsed,
                   summaryCalls, passes, history>>

Next ==
    \/ \E u \in Uploads, now \in 0..MaxPasses : Rerun(u, now)
    \/ LoadStep
    \/ NoDataStep
    \/ \E a \in AnalysisTypes : OverviewStep(a)
    \/ \E c \in {NoneCol} \cup (Names \X {0, 1}) : Univariate(c)
    \/ \E x \in Names \X {0, 1}, y \in {NoneCol} \cup (Names \X {0, 1}),
          t \in PlotTypes : Bivariate(x, y, t)
    \/ \E m \in CorrelationMethods : Correlation(m)
    \/ \E b \in BOOLEAN : ExportStep(b)
    \/ \E f \in DiskStates : ChangeDisk(f)

Spec == Init /\ [][Next]_vars

-----------------------------------------------------------------------------
(* load_data and generate_summary_stats applied to every CSV text within   *)
(* the bound                                                                *)

Headers == UNION {[1..m -> Names] : m \in 1..MaxCells}

\* line i of the grid g carries one field more than the header (i = 0: none)
Overlong(g, i) == IF i = 0 THEN g ELSE [g EXCEPT ![i] = Append(g[i], "x")]

\* Inputs: no upload while diabetes.csv is missing, the empty file, every
\* rectangular text, and every text in which one line after the first data line
\* is too long (pandas reads a longer FIRST data line as an index column; such
\* texts are left out)
InitPure ==
    /\ \/ uploaded_file = None
       \/ uploaded_file = UploadedFile(<<>>)
       \/ \E h \in Headers, n \in 0..MaxCells :
            /\ n * Len(h) <= MaxCells
            /\ \E g \in [1..n -> [1..Len(h) -> Tokens]], i \in {0} \cup (2..n) :
                  uploaded_file = UploadedFile(<<h>> \o Overlong(g, i))
    /\ disk = MissingFile
    /\ clock = 0
    /\ pxEmptyOk = TRUE
    /\ cache = EmptyCache
    /\ summaryCache = EmptyCache
    /\ pc = "pure"
    /\ data = None
    /\ loaded = None
    /\ summary_stats = NoSummary
    /\ page = <<>>
    /\ sel = NoSel
    /\ loadCalls = <<>>
    /\ parsed = <<>>
    /\ summaryCalls = <<>>
    /\ passes = 0
    /\ history = NoPass

\* load_data(uploaded_file), load_data("diabetes.csv")
PureLoad ==
    /\ pc = "pure"
    /\ LET input == ChooseInput(uploaded_file)
           r == load_data(cache, input, disk)
       IN  /\ cache' = r.store
           /\ data' = r.value
           /\ loaded' = r.value
           /\ loadCalls' = Append(loadCalls, input)
           /\ parsed' = parsed \o r.ran
           /\ page' = IF r.raised # ""
                      THEN << <<"exception", r.raised>> >>
                      ELSE r.msgs
    /\ pc' = "pure_loaded"
    /\ UNCHANGED <<disk, uploaded_file, clock, pxEmptyOk, summaryCache,
                   summary_stats, sel, summaryCalls, passes, history>>

\* generate_summary_stats(data), called a first and a second time
PureSummary ==
    /\ pc = "pure_loaded"
    /\ ~IsNone(data)
    /\ Len(summaryCalls) < 2
    /\ LET r == cached_generate_summary_stats(summaryCache, data)
       IN  /\ summaryCache' = r.store
           /\ summary_stats' = r.value
           /\ summaryCalls' = Append(summaryCalls, r.value)
    /\ UNCHANGED <<disk, uploaded_file, clock, pxEmptyOk, cache, pc, data, loaded,
                   page, sel, loadCalls, parsed, passes, history>>

NextPure == PureLoad \/ PureSummary

SpecPure == InitPure /\ [][NextPure]_vars

-----------------------------------------------------------------------------
(* Vocabulary of the properties *)

\* the page holds an element of this kind
HasKind(pg, kind) == \E i \in 1..Len(pg) : pg[i][1] = kind

\* the page holds an element of this kind with this label
HasEl(pg, kind, label) ==
    \E i \in 1..Len(pg) : pg[i][1] = kind /\ pg[i][2] = label

CountEl(pg, kind, label) ==
    Cardinality({i \in 1..Len(pg) : pg[i][1] = kind /\ pg[i][2] = label})

\* load_data has returned to main in the current pass
AfterLoad ==
    pc \in {"branch", "analysis", "export", "pure_loaded"} \/ (pc = "idle" /\ passes > 0)

\* the current pass has run to its end
PassDone == pc = "idle" /\ passes > 0

\* the pd.read_csv runs on this input
ParsesOf(input) == {i \in 1..Len(parsed) : parsed[i].input = input}

-----------------------------------------------------------------------------
(* C1 *)

\* C1: whenever pd.read_csv failed on the input handed to load_data (missing
\* file, empty file, malformed line), load_data returned None to main, the page
\* carries the non-empty "Error loading data: ..." report, and no exception
\* reached main.
C1_FailedLoadIsAbsentWithMessage ==
    (AfterLoad /\ loadCalls # <<>>) =>
        \A i \in ParsesOf(loadCalls[Len(loadCalls)]) :
            ~parsed[i].result.ok =>
                /\ IsNone(loaded)
                /\ \E j \in 1..Len(page) :
                     /\ page[j][1] = "error"
                     /\ page[j][2] = "Error loading data: "
                     /\ page[j][3] = parsed[i].result.err
                /\ ~HasKind(page, "exception")

C1_Witness ==
    /\ pc = "pure_loaded"
    /\ ~IsNone(uploaded_file)
    /\ parsed # <<>>
    /\ parsed[Len(parsed)].input = UploadInput(uploaded_file)
    /\ parsed[Len(parsed)].result.err = "EmptyDataError"
    /\ IsNone(loaded)

-----------------------------------------------------------------------------
(* C2 *)

OverviewKinds == {"metric", "dataframe", "sidebar.selectbox", "selectbox", "radio",
                  "plotly_chart", "dataframe.style", "sidebar.button", "subheader",
                  "sidebar.subheader", "write"}

\* C2: a pass whose loader yielded no dataset ends with no summary, selector,
\* plot, correlation or export element, exactly one "No data available" notice,
\* and no "File uploaded successfully!" message.
C2_NoDataShortCircuits ==
    (PassDone /\ IsNone(data)) =>
        /\ \A k \in OverviewKinds : ~HasKind(page, k)
        /\ summary_stats = NoSummary
        /\ CountEl(page, "error", "No data available.") = 1
        /\ ~HasEl(page, "sidebar.success", "File uploaded successfully!")

-----------------------------------------------------------------------------
(* C3 *)

\* the non-blank lines of a CSV text
NonBlank(content) == SelectSeq(content, LAMBDA l : ~IsBlankLine(l))

\* a header line and data lines none of which is longer than the header
WellFormed(content) ==
    /\ NonBlank(content) # <<>>
    /\ \A i \in 2..Len(NonBlank(content)) :
          Len(NonBlank(content)[i]) <= Len(NonBlank(content)[1])

\* C3: a well-formed CSV of N data rows and M columns loads as a frame of N
\* rows and M columns, every column is numeric or categorical and not both,
\* and the summary's two column counts add up to M.
C3_ShapeAndPartition ==
    (pc = "pure_loaded" /\ uploaded_file # None /\ WellFormed(uploaded_file.content)) =>
        LET N == Len(NonBlank(uploaded_file.content)) - 1
            M == Len(NonBlank(uploaded_file.content)[1])
        IN  /\ ~IsNone(data)
            /\ data.nrows = N
            /\ Len(data.cols) = M
            /\ \A j \in 1..M : Len(data.cols[j].vals) = N
            /\ \A j \in 1..M :
                  (data.cols[j].dtype \in NumericDtypes)
                      # (data.cols[j].dtype \in CategoricalDtypes)
            /\ \A k \in 1..Len(summaryCalls) :
                  summaryCalls[k]["Numeric Columns"][1]
                      + summaryCalls[k]["Categorical Columns"][1] = M

-----------------------------------------------------------------------------
(* C4 *)

\* C4: for a dataset without numeric columns the page never holds the numeric
\* column selector, a histogram or box plot, the correlation method control or
\* a correlation matrix; for a dataset without categorical columns it never
\* holds a categorical value-count control.
C4_NoControlsWithoutColumns ==
    (AfterLoad /\ ~IsNone(data)) =>
        /\ select_dtypes(data, NumericDtypes).cols = <<>> =>
              /\ ~HasEl(page, "selectbox", "Select Numeric Column")
              /\ ~HasEl(page, "plotly_chart", "histogram")
              /\ ~HasEl(page, "plotly_chart", "box")
              /\ ~HasEl(page, "radio", "Select Correlation Method")
              /\ ~HasEl(page, "plotly_chart", "imshow")
              /\ ~HasKind(page, "dataframe.style")
        /\ select_dtypes(data, CategoricalDtypes).cols = <<>> =>
              ~HasEl(page, "selectbox", "Select Categorical Column")

-----------------------------------------------------------------------------
(* C5 *)

\* the null cells of a frame, counted cell by cell
NullCells(d) ==
    Cardinality({c \in (1..Len(d.cols)) \X (1..d.nrows) : d.cols[c[1]].vals[c[2]] = NaN})

\* C5: the second call of generate_summary_stats on a dataset returns the same
\* record as the first, the calls leave the dataset as it was loaded, and
\* "Missing Values" is the number of null cells of the dataset.
C5_SummaryDeterministic ==
    (pc = "pure_loaded" /\ summaryCalls # <<>>) =>
        /\ \A k \in 1..Len(summaryCalls) :
              /\ summaryCalls[k] = summaryCalls[1]
              /\ summaryCalls[k]["Missing Values"] = <<NullCells(data)>>
              /\ summaryCalls[k]["Total Records"] = <<data.nrows>>
        /\ data = loaded
        /\ data = read_csv(File(uploaded_file.content)).df

C5_Witness ==
    /\ pc = "pure_loaded"
    /\ Len(summaryCalls) = 2
    /\ Len(data.cols) = 2
    /\ NullCells(data) = 3
    /\ data \in DOMAIN summaryCache

-----------------------------------------------------------------------------
(* C6 *)

\* C6: a successful parse is kept under the key of its input and never run
\* again for that input; every dataset main receives is the outcome of the one
\* parse of that input; an input none of whose parses is on record is parsed.
C6_CacheServesRepeatedLoads ==
    /\ \A i \in 1..Len(parsed) :
          parsed[i].result.ok =>
             /\ CacheKey(parsed[i].input) \in DOMAIN cache
             /\ cache[CacheKey(parsed[i].input)].value = parsed[i].result.df
             /\ \A j \in 1..Len(parsed) : parsed[j].input = parsed[i].input => j = i
    /\ (AfterLoad /\ loadCalls # <<>> /\ ~HasKind(page, "exception")) =>
          \E i \in ParsesOf(loadCalls[Len(loadCalls)]) :
              loaded = parsed[i].result.df

C6_Witness ==
    /\ pc = "branch"
    /\ passes = 2
    /\ ~IsNone(loaded)
    /\ Len(parsed) = 1
    /\ parsed[1].input = PathInput
    /\ loaded # read_csv(disk).df

-----------------------------------------------------------------------------
(* C7 *)

\* the elements of a page other than the header's time stamp
Body(pg) == SelectSeq(pg, LAMBDA el : ~(el[1] = "text" /\ el[2] = "Last updated: "))

\* a finished pass is compared with an earlier one that read the same widget
\* selections and worked on the same dataset
SameInputsAsRemembered ==
    /\ PassDone
    /\ history.pass > 0
    /\ history.pass < passes
    /\ history.sel = sel
    /\ history.data = data

\* C7 as stated: two passes with the same selections and the same dataset
\* produce the same page, header included.
C7_SamePage == SameInputsAsRemembered => page = history.page

\* C7 as amended: two passes with the same selections and the same dataset
\* produce the same page apart from the header's "Last updated" time stamp.
C7_SamePageBody == SameInputsAsRemembered => Body(page) = Body(history.page)

C7_Witness ==
    /\ SameInputsAsRemembered
    /\ page # history.page
    /\ HasKind(page, "error")
    /\ Len(parsed) = 1

-----------------------------------------------------------------------------
(* C8 *)

\* C8: a pass calls load_data once, on the uploaded file when the uploader
\* holds one and on diabetes.csv when it holds none; after a failed upload the
\* default file is not tried.
C8_SourceChosenByUpload ==
    /\ Len(loadCalls) <= 1
    /\ AfterLoad =>
          /\ Len(loadCalls) = 1
          /\ IF uploaded_file = None
             THEN loadCalls[1] = <<"path", "diabetes.csv">>
             ELSE loadCalls[1] = <<"upload", uploaded_file.content>>
    /\ \A i \in 1..Len(parsed) :
          parsed[i].input[1] = "path" => parsed[i].input[2] = "diabetes.csv"

C8_Witness ==
    /\ PassDone
    /\ uploaded_file # None
    /\ IsNone(data)
    /\ disk = File(MixedCsv)
    /\ loadCalls = << <<"upload", uploaded_file.content>> >>

-----------------------------------------------------------------------------
(* C9 *)

\* C9: once load_data has returned, no step of the pass changes the dataset:
\* `data` stays the frame load_data returned and the frame the cache holds for
\* the input, and no stored dataset is ever altered.
C9_DatasetNotMutated ==
    [][ /\ (pc \notin {"idle", "load", "pure"}) => data' = data
        /\ AfterLoad' => data' = loaded'
        /\ (AfterLoad' /\ ~HasKind(page', "exception")) =>
              data' = cache'[CacheKey(loadCalls'[1])].value
        /\ \A k \in DOMAIN cache : k \in DOMAIN cache' /\ cache'[k] = cache[k]
      ]_vars

C9_Witness ==
    /\ pc = "export"
    /\ sel.analysis_type = "Correlation Analysis"
    /\ ~IsNone(data)
    /\ select_dtypes(data, NumericDtypes) # data
    /\ select_dtypes(data, NumericDtypes).cols # <<>>

-----------------------------------------------------------------------------
(* C10 *)

\* a sequence without its k-th element
Without(q, k) == SubSeq(q, 1, k - 1) \o SubSeq(q, k + 1, Len(q))

BivariateDone ==
    /\ pc \in {"export", "idle"}
    /\ sel.analysis_type = "Bivariate Analysis"

\* C10: in Bivariate Analysis the Y-axis options are the dataset's columns
\* without the chosen X column, so Y is never X; with a single column the
\* option list is empty, no Y column is selected, and a plot is still built.
C10_YOptionsExcludeX ==
    BivariateDone =>
        \E i, p \in 1..Len(page) :
            /\ page[i][1] = "selectbox" /\ page[i][2] = "Select Y-axis"
            /\ \E k \in 1..Len(data.cols) :
                  /\ data.cols[k].name = sel.x_col
                  /\ page[i][3] = Without(columns(data), k)
            /\ page[i][4] = sel.y_col
            /\ sel.y_col # sel.x_col
            /\ IF page[i][3] = <<>>
               THEN sel.y_col = NoneCol
               ELSE sel.y_col \in Range(page[i][3])
            /\ Len(data.cols) = 1 => (page[i][3] = <<>> /\ sel.y_col = NoneCol)
            /\ page[p] = <<"plotly_chart", sel.plot_type, sel.x_col, sel.y_col>>

C10_Witness ==
    /\ BivariateDone
    /\ Len(data.cols) = 1
    /\ sel.y_col = NoneCol
    /\ HasKind(page, "plotly_chart")

====
